---- MODULE Spec2Model ----
(***************************************************************************)
(* Fixed-point model of the firing loop of motor_sim.py (nitrous oxide     *)
(* hybrid rocket motor simulator).                                         *)
(*                                                                         *)
(* The script computes in floating point; the model computes in integers   *)
(* with the following units, chosen so that the source's constants keep    *)
(* their values and no product leaves 32 bits:                             *)
(*   time            centiseconds (0.01 s)                                 *)
(*   mass flow       g/s                                                   *)
(*   mass            10 mg  (= g/s * cs, so mdotox*dt is exact)            *)
(*   length          0.1 mm, area (0.1 mm)^2 = 1e-8 m^2, volume cm^3       *)
(*   regression rate um/s; port.d, which integrates it, 0.01 um            *)
(*   pressure        Pa                                                    *)
(*   temperature     centikelvin                                           *)
(*   density         kg/m^3, enthalpy and heat capacity 100 J/kg (/K)      *)
(*   viscosity       uPa s                                                 *)
(*   ratios (Z, gamma, efficiencies, pressure ratios)  1/1000              *)
(*   O/F             1/10, Mach number 1/100                               *)
(* Real powers with the exponents 0.331, 0.31, 1/0.31, 1.31/0.31 are taken *)
(* with the nearest exponent an integer root or power can express.         *)
(***************************************************************************)
EXTENDS Integers, Sequences, FiniteSets, TLC

VARIABLES
    dt,             \* time step (input)
    VOL_TANK,       \* tank volume (input)
    time, blowdown_type, mdotox, vapz_lag, temp,
    lden, vden, hl, hg, cp, vap_pres, ldynvis, hv,
    pres_cham, lmass, vmass, tmass, fuel_mass,
    port_d,         \* port.d (0.01 um)
    c_star,         \* last characteristic velocity looked up (0: not yet bound)
    ld,             \* <<>> until liquid depletion, then <<snapshot>>
    data,           \* the twenty result lists, by name
    pc              \* where the script is: in the loop, or how the loop ended

vars == <<dt, VOL_TANK, time, blowdown_type, mdotox, vapz_lag, temp,
          lden, vden, hl, hg, cp, vap_pres, ldynvis, hv,
          pres_cham, lmass, vmass, tmass, fuel_mass,
          port_d, c_star, ld, data, pc>>

---------------------------------------------------------------------------
\* Bounds of the model

MaxTicks == 4           \* loop iterations explored per run
TinyFlow == 1           \* per-orifice flows (g/s) an injector may deliver
LowFlow == 15           \*   under a positive pressure drop
HighFlow == 80
LowZ == 600             \* compressibility factors Z2_solve may return
HighZ == 900
SmallTank == 150        \* two smaller tank volumes (cm^3)
MidTank == 400
ThinWeb == 21840        \* initial web (fuel.d - port.d, 0.01 um) of a nearly
                        \*   burnt grain

---------------------------------------------------------------------------
\* Input parameters (motor_sim.py, section "Input parameters")

VOL_TANK_DEFAULT == 4855      \* 0.047^2 * 3.14 * 0.7 m^3
HEAD_SPACE == 15              \* percent
NUM_INJ == 12
DIA_INJ == 15
DIA_PORT == 400
LENGTH_PORT == 7000
DIA_FUEL == 700
C_STAR_EFFICIENCY == 950
DIA_THROAT == 200
NOZZLE_EFFICIENCY == 970
NOZZLE_AREA_RATIO == 3500
DIA_FEED == 100
LENGTH_FEED == 2000
VALVE_MODEL_TYPE == "ball"
KV_VALVE == 5
DIA_VALVE == 150
LENGTH_VALVE == 800
DENSITY_FUEL == 1000
REG_COEFF == 1157             \* 1.157E-4 m/s = 115.7 um/s, in 0.1 um/s
REG_EXP == 331                \* 0.331
PRES_EXTERNAL == 101325
TEMP_INITIAL == 29815         \* 25 + 273.15 K
DT_DEFAULT == 1               \* 1e-2 s
DtSet == {DT_DEFAULT, 15, 30}
GAMMA_N2O == 1310
FLUX_LIMIT == 600             \* kg s^-1 m^-2
STARTUP_TIME == 50            \* 0.5 s
LAG_TIME == 15                \* 0.15 s
PDROP_MIN_NUM == 15           \* 0.15 = 15/100
PDROP_MIN_DEN == 100

LenScale == 10000             \* 0.1 mm in units of 0.01 um

PiNum == 22
PiDen == 7

NumericalInstability == -1    \* Z2_solve's 'numerical instability'

---------------------------------------------------------------------------
\* Integer helpers

Abs(x) == IF x < 0 THEN -x ELSE x

RECURSIVE IPow(_, _)
IPow(b, n) == IF n <= 0 THEN 1 ELSE b * IPow(b, n - 1)

\* largest r in 0..hi with r^k <= x (0 for x <= 0)
RECURSIVE RootSearch(_, _, _, _)
RootSearch(x, k, lo, hi) ==
    IF lo >= hi THEN lo
    ELSE LET mid == (lo + hi + 1) \div 2
         IN IF IPow(mid, k) <= x THEN RootSearch(x, k, mid, hi)
            ELSE RootSearch(x, k, lo, mid - 1)

ICbrt(x) == IF x <= 0 THEN 0 ELSE RootSearch(x, 3, 0, 1280)
ISqrt(x) == IF x <= 0 THEN 0 ELSE RootSearch(x, 2, 0, 46000)

\* a * b / c without forming a * b when a is large (b, c > 0, b * c < 2^31)
MulDiv(a, b, c) == (a \div c) * b + ((a % c) * b) \div c

---------------------------------------------------------------------------
\* motor.Pipe: diameter, length, derived area pi d^2 / 4

PipeA(d) == (PiNum * d * d) \div (PiDen * 4)

fuel_d == DIA_FUEL
port_l == LENGTH_PORT
feed_d == DIA_FEED
feed_l == LENGTH_FEED
valve_d == DIA_VALVE
valve_l == LENGTH_VALVE
fuel_A == PipeA(DIA_FUEL)
throat_A == PipeA(DIA_THROAT)
feed_A == PipeA(DIA_FEED)

---------------------------------------------------------------------------
\* hybrid_functions: the library the script imports.  Its functions are
\* pure; those whose value decides no branch of the loop are given here as
\* fixed correlations, the injector flows and the Z2 solve are inputs of
\* each tick (see LiquidBlowdown, VapourBlowdown).

TEMP_MIN == 18300             \* range of validity of the correlations
TEMP_MAX == 30900

thermophys_valid(T) == T >= TEMP_MIN /\ T <= TEMP_MAX

\* lden, vden, hl, hg, cp, vap_pres, ldynvis at temperature T
thermophys(T) ==
    LET dT == T - TEMP_INITIAL
    IN [lden     |-> 743 - (415 * dT) \div 10000,
        vden     |-> 190 + (163 * dT) \div 10000,
        hl       |-> dT \div 4,
        hg       |-> 1500 + dT \div 20,
        cp       |-> 30 + dT \div 1000,
        vap_pres |-> 5660000 + 484 * dT,
        ldynvis  |-> 54 - dT \div 100]

\* np.interp(p, pdat, zdat) over the table of compressibility_read:
\* Z falls linearly with pressure, constant outside the table
ZInterp(p) ==
    LET q == IF p < 0 THEN 0 ELSE IF p > 7200000 THEN 7200000 ELSE p
    IN 1000 - q \div 12000

\* friction factor (1/10000) from the Reynolds number
Nikuradse(reynolds) == IF reynolds < 100000 THEN 40 ELSE 25

\* loss coefficient (1/100) of a full bore ball valve as a thick orifice
ball_valve_K(reynolds, d_pipe, d_valve, l_valve) ==
    IF d_valve >= d_pipe THEN 5 ELSE 50

\* Z2_solve(temp_ld, Z_ld, vmass_ld, vmass, gamma, zdat, pdat): no solution
\* for an empty tank; otherwise what the iteration arrives at (z)
Z2_solve(vmass_ld, vmass2, z) ==
    IF vmass2 <= 0 \/ vmass_ld <= 0 THEN NumericalInstability ELSE z

\* dyer_injector(pres_cham, DIA_INJ, lden, inj_pdrop, hl, manifold_pres,
\* vap_pres): the flows of one orifice the two-phase model may return; no
\* flow without a positive pressure drop
dyer_injector(pdrop) ==
    IF pdrop > 0 THEN {TinyFlow, LowFlow, HighFlow} ELSE {0}

\* vapour_injector(DIA_INJ, vden, inj_pdrop): the same for the vapour phase
vapour_injector(pdrop) ==
    IF pdrop > 0 THEN {TinyFlow, LowFlow, HighFlow} ELSE {0}

\* c_star_lookup(pres_cham, OF, propep_data), m/s; OF in tenths
c_star_lookup(p, OF) ==
    1600 + p \div 100000 - 2 * Abs(OF - 70)

\* gamma_lookup(pres_cham, OF, propep_data), 1/1000
gamma_lookup(p, OF) ==
    IF OF < 70 THEN 1250 ELSE 1200

\* mach_exit(gamma, area ratio), 1/100
mach_exit(gamma, ratio) ==
    200 + ratio \div 50 + (gamma - 1200) \div 5

---------------------------------------------------------------------------
\* The state of the script as a record, and the stages of one iteration of
\* the loop as functions from state to state.  A stage that ends the loop
\* sets pc; the stages after it leave the state alone.

DataNames == {"time_data", "vap_pres_data", "pres_cham_data", "thrust_data",
              "gox_data", "prop_mass_data", "manifold_pres_data",
              "gamma_data", "throat_data", "nozzle_efficiency_data",
              "exit_pressure_data", "area_ratio_data", "of_data",
              "regression_data", "port_diameter_data",
              "vden_data", "vmass_data", "lden_data", "lmass_data",
              "fuel_mass_data"}

S == [dt |-> dt, VOL_TANK |-> VOL_TANK, time |-> time,
      blowdown_type |-> blowdown_type, mdotox |-> mdotox,
      vapz_lag |-> vapz_lag, temp |-> temp, lden |-> lden, vden |-> vden,
      hl |-> hl, hg |-> hg, cp |-> cp, vap_pres |-> vap_pres,
      ldynvis |-> ldynvis, hv |-> hv, pres_cham |-> pres_cham,
      lmass |-> lmass, vmass |-> vmass, tmass |-> tmass,
      fuel_mass |-> fuel_mass, port_d |-> port_d, c_star |-> c_star,
      ld |-> ld, data |-> data, pc |-> pc]

Assign(r) ==
    /\ dt' = r.dt /\ VOL_TANK' = r.VOL_TANK /\ time' = r.time
    /\ blowdown_type' = r.blowdown_type /\ mdotox' = r.mdotox
    /\ vapz_lag' = r.vapz_lag /\ temp' = r.temp
    /\ lden' = r.lden /\ vden' = r.vden /\ hl' = r.hl /\ hg' = r.hg
    /\ cp' = r.cp /\ vap_pres' = r.vap_pres /\ ldynvis' = r.ldynvis
    /\ hv' = r.hv /\ pres_cham' = r.pres_cham
    /\ lmass' = r.lmass /\ vmass' = r.vmass /\ tmass' = r.tmass
    /\ fuel_mass' = r.fuel_mass /\ port_d' = r.port_d
    /\ c_star' = r.c_star /\ ld' = r.ld /\ data' = r.data /\ pc' = r.pc

\* lines 158-182: feed system losses, only attempted for the liquid phase
manifold_pres(s) ==
    IF s.mdotox > 0 /\ s.lmass > 0
    THEN LET flow_speed == (((s.mdotox * 100000) \div s.lden) * 100)
                               \div feed_A                       \* cm/s
             rho_v2 == (((s.lden * flow_speed) \div 100) * flow_speed)
                               \div 100                          \* Pa
             entry_loss == rho_v2 \div 2
             reynolds == (s.lden * flow_speed * feed_d) \div s.ldynvis
             f == Nikuradse(reynolds)
             vis_pdrop == (((f * rho_v2) \div 10000) * feed_l)
                               \div (4 * feed_d)
             valve_loss ==
                 IF VALVE_MODEL_TYPE = "ball"
                 THEN (rho_v2 * ball_valve_K(reynolds, feed_d, valve_d,
                                             valve_l)) \div 200
                 ELSE (1296 * s.mdotox * s.mdotox)
                          \div (s.lden * KV_VALVE * KV_VALVE)
         IN s.vap_pres - entry_loss - valve_loss - vis_pdrop
    ELSE s.vap_pres

\* line 186
inj_pdrop(s) == manifold_pres(s) - s.pres_cham

\* line 188: inj_pdrop < 0.15 and time > 0.5, time already incremented
reverse_flow(s) ==
    /\ PDROP_MIN_DEN * inj_pdrop(s) < PDROP_MIN_NUM
    /\ s.time > STARTUP_TIME

\* the outflow taken per second instead of per time step
tank_outflow_per_second(m, flow, step) == m - flow

\* line 203: tmass -= mdotox * dt
tank_outflow(m, flow, step) == m - flow * step

\* the tuple of lines 221-222 unpacked with two names exchanged
liquid_depletion_swapped(vmass1, temp1, vden1, vap_pres1) ==
    [vmass_ld |-> vmass1, temp_ld |-> temp1, vden_ld |-> vap_pres1,
     vap_pres_ld |-> vden1,
     Z_ld |-> ZInterp(thermophys(temp1).vap_pres)]

\* lines 221-224: tank parameters at liquid depletion
liquid_depletion(vmass1, temp1, vden1, vap_pres1) ==
    [vmass_ld |-> vmass1, temp_ld |-> temp1, vden_ld |-> vden1,
     vap_pres_ld |-> vap_pres1,
     Z_ld |-> ZInterp(thermophys(temp1).vap_pres)]

\* lines 194-237: liquid phase blowdown; q is dyer_injector's flow
liquid_blowdown(s, q) ==
    LET mdotox1 == NUM_INJ * q
        tmass1 == tank_outflow(s.tmass, mdotox1, s.dt)
        lmass_pre_vap == s.lmass - mdotox1 * s.dt
        lmass_post_vap == (((s.vden * s.VOL_TANK) \div 10 - tmass1) * s.lden)
                              \div (s.vden - s.lden)
        s1 == [s EXCEPT !.mdotox = mdotox1, !.tmass = tmass1]
    IN IF lmass_pre_vap < lmass_post_vap
       THEN [s1 EXCEPT !.blowdown_type = "vapour",
                       !.lmass = 0,
                       !.vmass = tmass1,
                       !.ld = <<liquid_depletion(tmass1, s.temp, s.vden,
                                                 s.vap_pres)>>]
       ELSE LET lmass1 == lmass_post_vap
                vapz == lmass_pre_vap - lmass1
                vapz_lag1 == (s.dt * (vapz - s.vapz_lag)) \div LAG_TIME
                                 + s.vapz_lag
                s2 == [s1 EXCEPT !.lmass = lmass1, !.vapz_lag = vapz_lag1,
                                 !.vmass = tmass1 - lmass1]
            IN IF lmass1 = 0
               THEN [s2 EXCEPT !.pc = "error"]       \* division by lmass
               ELSE LET temp1 == s.temp - (((vapz_lag1 * s.hv) \div lmass1)
                                              * 100) \div s.cp
                        s3 == [s2 EXCEPT !.temp = temp1]
                        th == thermophys(temp1)
                    IN IF ~thermophys_valid(temp1)
                       THEN [s3 EXCEPT !.pc = "error"]
                       ELSE [s3 EXCEPT !.lden = th.lden, !.vden = th.vden,
                                       !.hl = th.hl, !.hg = th.hg,
                                       !.cp = th.cp,
                                       !.vap_pres = th.vap_pres,
                                       !.ldynvis = th.ldynvis,
                                       !.hv = th.hg - th.hl]

\* x * (y/1000)^n
RECURSIVE ScalePow(_, _, _)
ScalePow(x, y, n) ==
    IF n <= 0 THEN x ELSE ScalePow(MulDiv(x, y, 1000), y, n - 1)

\* lines 240-257: vapour phase blowdown; q is vapour_injector's flow and z
\* the value Z2_solve's iteration arrives at
vapour_blowdown(s, q, z) ==
    LET mdotox1 == NUM_INJ * q
        vmass1 == s.vmass - s.dt * mdotox1
        snap == s.ld[1]
        Z2 == Z2_solve(snap.vmass_ld, vmass1, z)
        s1 == [s EXCEPT !.mdotox = mdotox1, !.vmass = vmass1]
    IN IF Z2 = NumericalInstability
       THEN [s1 EXCEPT !.pc = "vapour_depleted"]
       ELSE LET num == Z2 * vmass1
                den == snap.Z_ld * snap.vmass_ld
                ratio == IF den >= 900000 THEN num \div (den \div 1000)
                         ELSE (num * 1000) \div den
                \* pow(ratio, gamma_N2O - 1), an integer root of degree
                \* 1000 \div (GAMMA_N2O - 1000) = 3
                temp1 == (snap.temp_ld * ICbrt(ratio * 1000000)) \div 1000
                tq == (temp1 * 1000) \div snap.temp_ld
            IN [s1 EXCEPT
                  !.temp = temp1,
                  !.vap_pres = ScalePow(snap.vap_pres_ld, tq,
                                  GAMMA_N2O \div (GAMMA_N2O - 1000)),
                  !.vden = ScalePow(snap.vden_ld, tq,
                                  1000 \div (GAMMA_N2O - 1000))]

\* (y/1000)^n, in 1/1000
RECURSIVE PowPermille(_, _)
PowPermille(y, n) ==
    IF n <= 0 THEN 1000 ELSE (y * PowPermille(y, n - 1)) \div 1000

\* largest r in lo..hi with (r/1000)^n <= x/1000
RECURSIVE RootPermille(_, _, _, _)
RootPermille(x, n, lo, hi) ==
    IF lo >= hi THEN lo
    ELSE LET mid == (lo + hi + 1) \div 2
         IN IF PowPermille(mid, n) <= x THEN RootPermille(x, n, mid, hi)
            ELSE RootPermille(x, n, lo, mid - 1)

\* port.A, the area of the present port.d
port_A(s) == PipeA(s.port_d \div LenScale)

\* line 260: mdotox / port.A
mass_flux(s) == (s.mdotox * 100000) \div port_A(s)

\* line 260: check for excessive mass flux
excessive_flux(s) == mass_flux(s) > FLUX_LIMIT

\* the break after the flux message in force
flux_check_breaks_enabled == TRUE

\* line 262: the break after the flux message is commented out
flux_check_breaks == FALSE

\* line 265: rdot = REG_COEFF * pow(mdotox/port.A, REG_EXP); the power is
\* the integer root of degree 1000 \div REG_EXP = 3, to one decimal
regression(s) == (REG_COEFF * ICbrt(mass_flux(s) * 1000)) \div 100

\* line 266: mdotfuel = rdot * DENSITY_FUEL * pi * port.d * port.l (g/s)
fuel_flow(s) ==
    ((((((regression(s) * DENSITY_FUEL) \div 1000)
            * (s.port_d \div LenScale)) \div 100)
          * port_l * PiNum) \div PiDen) \div 1000000

\* the port shrinking by the regression instead of growing
port_growth_negated(s) == s.port_d - 2 * regression(s) * s.dt

\* line 268: port.d += 2*rdot*dt
port_growth(s) == s.port_d + 2 * regression(s) * s.dt

\* line 270: check for depleted fuel grain
grain_depleted(d) == d > fuel_d * LenScale

\* lines 113, 274: fuel_mass = (fuel.A - port.A) * port.l * DENSITY_FUEL
fuel_mass_of(d) ==
    ((((fuel_A - PipeA(d \div LenScale)) * port_l) \div 10000) * DENSITY_FUEL)
        \div 1000

\* line 283: pres_cham = (mdotox + mdotfuel) * c_star / throat.A
chamber_pressure(mdot, cstar) == (((mdot * cstar) * 100) \div throat_A) * 1000

\* the chamber pressure left as it was, only c_star looked up
chamber_not_updated(s, mdotfuel, OF) ==
    [s EXCEPT !.c_star = (c_star_lookup(s.pres_cham, OF) * C_STAR_EFFICIENCY)
                             \div 1000]

\* the chamber pressure updated with the c_star of the tick before, the
\* lookup coming after the update
chamber_lagged(s, mdotfuel, OF) ==
    [s EXCEPT !.c_star = (c_star_lookup(s.pres_cham, OF) * C_STAR_EFFICIENCY)
                             \div 1000,
              !.pres_cham = chamber_pressure(s.mdotox + mdotfuel, s.c_star)]

\* lines 277-283: look up c_star at the chamber pressure of the previous
\* tick and the present O/F, then update the chamber pressure with it
chamber(s, mdotfuel, OF) ==
    LET c_star1 == (c_star_lookup(s.pres_cham, OF) * C_STAR_EFFICIENCY)
                       \div 1000
    IN [s EXCEPT !.c_star = c_star1,
                 !.pres_cham = chamber_pressure(s.mdotox + mdotfuel, c_star1)]

\* lines 291-293: exit pressure from the exit Mach number
exit_pressure(p, gamma) ==
    LET mach == mach_exit(gamma, NOZZLE_AREA_RATIO)
        base == 1000 + ((gamma - 1000) * mach * mach) \div 20000
    IN ScalePow(p, 1000000 \div base, gamma \div (gamma - 1000))

\* lines 297-302: thrust (N)
thrust_of(p, pe, gamma) ==
    LET t1 == (2 * gamma * gamma) \div (gamma - 1000)
        t2 == PowPermille(2000000 \div (gamma + 1000),
                          (gamma + 1000) \div (gamma - 1000))
        pr == IF p > 0 THEN MulDiv(pe, 1000, p) ELSE 0
        t3 == 1000 - RootPermille(pr, gamma \div (gamma - 1000), 0, 1000)
        cf == ISqrt((((t1 * t2) \div 1000) * t3))
        momentum == ((((p \div 1000) * throat_A) \div 100000) * cf) \div 1000
        pressure == (((((pe - PRES_EXTERNAL) \div 100) * throat_A)
                        \div 1000000) * NOZZLE_AREA_RATIO) \div 1000
    IN (NOZZLE_EFFICIENCY * (momentum + pressure)) \div 1000

\* one of the twenty appends forgotten
append_data_one_missing(d, rec) ==
    [k \in DataNames |->
        IF k = "fuel_mass_data" THEN d[k] ELSE Append(d[k], rec[k])]

\* lines 305-327: update data lists
append_data(d, rec) == [k \in DataNames |-> Append(d[k], rec[k])]

\* lines 259-327: flux check, fuel port, chamber pressure, performance and
\* the record of the tick; mp is the manifold pressure of this tick
combustion(s, mp) ==
    IF s.pc # "running" THEN s
    ELSE
    IF excessive_flux(s) /\ flux_check_breaks
    THEN [s EXCEPT !.pc = "flux_exceeded"]
    ELSE
    LET rdot == regression(s)
        mdotfuel == fuel_flow(s)
        s1 == [s EXCEPT !.port_d = port_growth(s)]
    IN IF grain_depleted(s1.port_d)
       THEN [s1 EXCEPT !.pc = "fuel_depleted"]
       ELSE LET sf == [s1 EXCEPT !.fuel_mass = fuel_mass_of(s1.port_d)]
            IN IF mdotfuel = 0
               THEN [sf EXCEPT !.pc = "error"]     \* mdotox / mdotfuel
               ELSE LET OF == (sf.mdotox * 10) \div mdotfuel
                        s2 == chamber(sf, mdotfuel, OF)
                        pres_cham1 == s2.pres_cham
                        gamma == gamma_lookup(pres_cham1, OF)
                        pres_exit == exit_pressure(pres_cham1, gamma)
                        thrust == thrust_of(pres_cham1, pres_exit, gamma)
                        rec == [time_data |-> s2.time,
                                vap_pres_data |-> s2.vap_pres,
                                pres_cham_data |-> pres_cham1,
                                manifold_pres_data |-> mp,
                                thrust_data |-> thrust,
                                gox_data |-> mass_flux(s2),
                                prop_mass_data |->
                                    s2.lmass + s2.vmass + s2.fuel_mass,
                                gamma_data |-> gamma,
                                throat_data |-> DIA_THROAT,
                                nozzle_efficiency_data |-> NOZZLE_EFFICIENCY,
                                exit_pressure_data |-> pres_exit,
                                area_ratio_data |-> NOZZLE_AREA_RATIO,
                                of_data |-> OF,
                                regression_data |-> rdot,
                                port_diameter_data |-> s2.port_d,
                                vmass_data |-> s2.vmass,
                                vden_data |-> s2.vden,
                                lden_data |-> s2.lden,
                                lmass_data |-> s2.lmass,
                                fuel_mass_data |-> s2.fuel_mass]
                    IN [s2 EXCEPT !.data = append_data(s2.data, rec)]

---------------------------------------------------------------------------
\* lines 96-137: the state before the loop, for each choice of the inputs

Init ==
    /\ dt \in DtSet
    /\ VOL_TANK \in {VOL_TANK_DEFAULT, MidTank, SmallTank}
    /\ port_d \in {DIA_PORT * LenScale, DIA_FUEL * LenScale - ThinWeb,
                  DIA_FUEL * LenScale}
    /\ vapz_lag = 0
    /\ time = 0
    /\ mdotox = 0
    /\ blowdown_type = "liquid"
    /\ temp = TEMP_INITIAL
    /\ lden = thermophys(TEMP_INITIAL).lden
    /\ vden = thermophys(TEMP_INITIAL).vden
    /\ hl = thermophys(TEMP_INITIAL).hl
    /\ hg = thermophys(TEMP_INITIAL).hg
    /\ cp = thermophys(TEMP_INITIAL).cp
    /\ vap_pres = thermophys(TEMP_INITIAL).vap_pres
    /\ ldynvis = thermophys(TEMP_INITIAL).ldynvis
    /\ hv = thermophys(TEMP_INITIAL).hg - thermophys(TEMP_INITIAL).hl
    /\ pres_cham = PRES_EXTERNAL
    /\ lmass = (VOL_TANK * (100 - HEAD_SPACE) * thermophys(TEMP_INITIAL).lden)
                   \div 1000
    /\ vmass = (VOL_TANK * HEAD_SPACE * thermophys(TEMP_INITIAL).vden)
                   \div 1000
    /\ tmass = lmass + vmass
    /\ fuel_mass = fuel_mass_of(port_d)
    /\ c_star = 0
    /\ ld = <<>>
    /\ data = [k \in DataNames |-> <<>>]
    /\ pc = "running"

\* the loop is at its head and the model follows it further
AtLoopHead == pc = "running" /\ time < MaxTicks * dt

\* the state at line 186 of the iteration that starts now
Entered == [S EXCEPT !.time = time + dt]

\* One iteration that ends at line 190: reverse flow
ReverseFlow ==
    /\ AtLoopHead
    /\ reverse_flow(Entered)
    /\ Assign([Entered EXCEPT !.pc = "reverse_flow"])

\* One iteration in the liquid phase
LiquidBlowdown ==
    /\ AtLoopHead
    /\ ~reverse_flow(Entered)
    /\ blowdown_type = "liquid"
    /\ \E q \in dyer_injector(inj_pdrop(Entered)) :
           Assign(combustion(liquid_blowdown(Entered, q),
                             manifold_pres(Entered)))

\* One iteration in the vapour phase
VapourBlowdown ==
    /\ AtLoopHead
    /\ ~reverse_flow(Entered)
    /\ blowdown_type # "liquid"
    /\ \E q \in vapour_injector(inj_pdrop(Entered)) :
       \E z \in {NumericalInstability, LowZ, HighZ} :
           Assign(combustion(vapour_blowdown(Entered, q, z),
                             manifold_pres(Entered)))

Next == ReverseFlow \/ LiquidBlowdown \/ VapourBlowdown

Spec == Init /\ [][Next]_vars

---------------------------------------------------------------------------
\* Properties

\* a step of the loop (not a stuttering step): the time has advanced
Ticked == time' # time

\* the tick got past the injector pressure drop check and updated the tank
TankUpdated == Ticked /\ pc' # "reverse_flow"

\* the tick ran to the end of the loop body
Completed == Ticked /\ pc' = "running"

NumRecords == Len(data.time_data)

\* the fuel flow and O/F of the tick just taken, from the state before it
TickFuelFlow == fuel_flow([S EXCEPT !.mdotox = mdotox'])
TickOF == (mdotox' * 10) \div TickFuelFlow

\* C1: in every tick that starts in the liquid phase and updates the tank
\* (the tick that switches to vapour included), lmass + vmass after the
\* tick is lmass + vmass before it minus mdotox*dt for the mdotox of that
\* tick, it equals tmass, and it has strictly decreased if mdotox > 0.
C1_MassConservation ==
    [][(blowdown_type = "liquid" /\ TankUpdated) =>
          /\ lmass' + vmass' = lmass + vmass - mdotox' * dt
          /\ lmass' + vmass' = tmass'
          /\ (mdotox' > 0 => lmass' + vmass' < lmass + vmass)]_vars

\* a tick with flow has just switched the tank to vapour
C1_Witness ==
    /\ blowdown_type = "vapour" /\ mdotox > 0 /\ pc = "running"
    /\ ld[1].vmass_ld = vmass /\ lmass + vmass = tmass
    /\ NumRecords >= 2 /\ data.lmass_data[NumRecords - 1] > 0

\* C2: lmass >= 0 and vmass >= 0 in every state of the loop that no
\* exception has ended, the state a terminating tick leaves included.
C2_NonNegativeMasses == pc # "error" => (lmass >= 0 /\ vmass >= 0)

\* C3: a tick with time > 0.5 s whose injector pressure drop is below 0.15
\* times the chamber pressure ends the loop as reverse flow, before the
\* oxidizer flow or a tank mass is updated and without a record.
C3_ReverseFlowBelowFraction ==
    [][(Ticked /\ time' > STARTUP_TIME
          /\ PDROP_MIN_DEN * inj_pdrop(Entered) < PDROP_MIN_NUM * pres_cham)
        => (pc' = "reverse_flow" /\ mdotox' = mdotox /\ lmass' = lmass
             /\ vmass' = vmass /\ tmass' = tmass /\ data' = data)]_vars

\* C4 as claimed: the first record holds PRES_EXTERNAL as chamber pressure.
C4_FirstRecordIsExternal ==
    NumRecords >= 1 => data.pres_cham_data[1] = PRES_EXTERNAL

\* C4 amended: the first record holds the chamber pressure that the first
\* tick computed, (mdotox + mdotfuel) * c_star / throat.A with c_star
\* looked up at PRES_EXTERNAL, and that is the chamber pressure after the
\* tick; PRES_EXTERNAL only enters the first lookup.
C4_FirstRecordIsUpdated ==
    [][(Completed /\ NumRecords = 0) =>
          /\ pres_cham = PRES_EXTERNAL
          /\ data'.pres_cham_data[1] =
                 chamber_pressure(mdotox' + TickFuelFlow,
                     (c_star_lookup(PRES_EXTERNAL, TickOF)
                          * C_STAR_EFFICIENCY) \div 1000)
          /\ data'.pres_cham_data[1] = pres_cham']_vars

\* the first tick has completed and its record is not PRES_EXTERNAL
C4_Witness ==
    /\ NumRecords = 1 /\ pc = "running"
    /\ data.pres_cham_data[1] = pres_cham /\ pres_cham # PRES_EXTERNAL

\* C5: a tick that does not end the loop appends one entry to each of the
\* twenty lists and leaves the earlier entries alone, a tick that ends the
\* loop appends to none; so the lists always have the same length, the
\* number of ticks that ran to completion.
C5_Lists ==
    /\ [](/\ Cardinality(DataNames) = 20
          /\ \A k \in DataNames :
                Len(data[k]) = IF pc = "running" THEN time \div dt
                               ELSE time \div dt - 1)
    /\ [][Ticked =>
            IF pc' = "running"
            THEN \A k \in DataNames :
                    /\ Len(data'[k]) = Len(data[k]) + 1
                    /\ SubSeq(data'[k], 1, Len(data[k])) = data[k]
            ELSE data' = data]_vars

\* three ticks have completed and a fourth has ended the loop
C5_Witness ==
    /\ pc \in {"reverse_flow", "vapour_depleted", "fuel_depleted"}
    /\ NumRecords = 3 /\ time = 4 * dt

\* C6: the loop ends as fuel depleted in the first tick whose regression
\* update brings port.d to fuel.d or beyond (port.d >= fuel.d), so a tick
\* that runs to completion leaves port.d < fuel.d.
C6_DepletedWhenReached ==
    [][Completed => port_d' < fuel_d * LenScale]_vars

\* C7: port.d never decreases; a tick changes it only by adding 2*rdot*dt,
\* and rdot >= 0 whenever the mass flux is >= 0.
C7_PortGrowth ==
    /\ [](mass_flux(S) >= 0 => regression(S) >= 0)
    /\ [][/\ port_d' >= port_d
          /\ Ticked =>
               \/ port_d' = port_d
               \/ /\ TankUpdated /\ pc' # "vapour_depleted"
                  /\ port_d' = port_d
                       + 2 * regression([S EXCEPT !.mdotox = mdotox']) * dt
                  /\ regression([S EXCEPT !.mdotox = mdotox']) >= 0]_vars

\* the port has grown in two ticks
C7_Witness ==
    /\ NumRecords >= 2
    /\ data.port_diameter_data[1] > DIA_PORT * LenScale
    /\ data.port_diameter_data[2] > data.port_diameter_data[1]
    /\ port_d >= data.port_diameter_data[2]

\* C8: a tick whose mass flux mdotox/port.A exceeds 600 does not end the
\* loop for that: if neither reverse flow, vapour depletion, fuel depletion
\* nor an exception ends it, it appends its record and the loop goes on.
C8_FluxDoesNotHalt ==
    [][(TankUpdated /\ excessive_flux([S EXCEPT !.mdotox = mdotox'])
          /\ pc' \notin {"vapour_depleted", "fuel_depleted", "error"})
        => (pc' = "running" /\ Len(data'.gox_data) = NumRecords + 1)]_vars

\* two ticks in a row have completed with a flux above the limit
C8_Witness ==
    /\ pc = "running" /\ NumRecords >= 2
    /\ data.gox_data[NumRecords] > FLUX_LIMIT
    /\ data.gox_data[NumRecords - 1] > FLUX_LIMIT

\* C9 as claimed: the new chamber pressure is the total flow of the tick
\* times the characteristic velocity of the previous tick over throat.A.
C9_PreviousCStar ==
    [][(Completed /\ NumRecords >= 1) =>
          pres_cham' = chamber_pressure(mdotox' + TickFuelFlow, c_star)]_vars

\* C9 amended: the new chamber pressure is the total flow of the tick times
\* the characteristic velocity looked up in that same tick (at the chamber
\* pressure of the previous tick and the O/F of this tick, times
\* C_STAR_EFFICIENCY) over throat.A.
C9_CurrentCStar ==
    [][Completed =>
          /\ c_star' = (c_star_lookup(pres_cham, TickOF) * C_STAR_EFFICIENCY)
                           \div 1000
          /\ pres_cham' = chamber_pressure(mdotox' + TickFuelFlow, c_star')]_vars

\* two ticks have completed and looked up different characteristic
\* velocities
C9_Witness ==
    /\ NumRecords >= 2 /\ pc = "running" /\ c_star > 0
    /\ data.pres_cham_data[NumRecords] = pres_cham
    /\ data.pres_cham_data[NumRecords - 1] # pres_cham

\* C10: the phase never returns from vapour to liquid; the snapshot is
\* written in the transition tick only, holds vmass, temp, vden and
\* vap_pres of that tick, and later ticks leave it and lmass = 0 alone.
C10_Snapshot ==
    [][/\ blowdown_type = "vapour" =>
             /\ blowdown_type' = "vapour" /\ ld' = ld
             /\ lmass = 0 /\ lmass' = 0
       /\ blowdown_type' = "liquid" => ld' = <<>>
       /\ (blowdown_type = "liquid" /\ blowdown_type' = "vapour") =>
             /\ ld = <<>> /\ Len(ld') = 1
             /\ ld'[1].vmass_ld = vmass' /\ ld'[1].temp_ld = temp'
             /\ ld'[1].vden_ld = vden' /\ ld'[1].vap_pres_ld = vap_pres'
             /\ ld'[1].Z_ld = ZInterp(vap_pres')]_vars

\* a vapour tick has completed after the transition and changed the tank
C10_Witness ==
    /\ blowdown_type = "vapour" /\ pc = "running" /\ lmass = 0
    /\ vmass < ld[1].vmass_ld /\ temp # ld[1].temp_ld
    /\ vden # ld[1].vden_ld /\ vap_pres # ld[1].vap_pres_ld

====
